---- MODULE Spec2Model ----
(***************************************************************************)
(* Model of geocode_simple.py: the two provider clients, the fallback      *)
(* resolver geocode_with_fallback and the batch processor                  *)
(* process_evacuation_sites.                                               *)
(*                                                                         *)
(* JSON values are tagged records: Num(n) is a JSON number (a Python       *)
(* int/float), Str(s) a JSON string.  Numbers are integers here; distinct  *)
(* integers stand for distinct latitudes and longitudes.  The column       *)
(* headers of the CSV are written NameCol and AddrCol.  Time is counted in *)
(* milliseconds of time.sleep.                                             *)
(***************************************************************************)
EXTENDS Integers, Sequences, FiniteSets, TLC

\* ------------------------------------------------------------------ bounds
MaxRows == 2

\* ------------------------------------------------------- program constants
InterProviderDelay == 1000
InterRowDelay == 500

NameCol == "shisetsumei"
AddrCol == "shozaichi"
OtherCol == "biko"

\* ------------------------------------------------------------- JSON values
Num(n) == [num |-> n]
Str(s) == [str |-> s]
IsNum(v) == "num" \in DOMAIN v
IsStr(v) == "str" \in DOMAIN v

\* Python's None, and the truth value Python gives `if coords:`; a coordinate
\* pair is the tuple <<lat, lon>>.
None == <<>>
Truthy(x) == Len(x) > 0

\* An exception raised inside a client's try block.
Raise(e) == [exc |-> e]
Raised(x) == "exc" \in DOMAIN x

\* float(v): a number stays, a numeric string is parsed, anything else raises.
FloatTable ==
  [s \in {"35", "36", "139", "140"} |->
     CASE s = "35" -> 35 [] s = "36" -> 36 [] s = "139" -> 139 [] s = "140" -> 140]
float(v) ==
  IF IsNum(v) THEN v
  ELSE IF IsStr(v) /\ v.str \in DOMAIN FloatTable THEN Num(FloatTable[v.str])
  ELSE Raise("ValueError")

\* format(v, ".6f") of the success message: only numbers can be formatted.
CanFormat6f(v) == IsNum(v)

\* ------------------------------------------------ provider raw responses
\* What urlopen + json.loads yields: an exception, or the decoded array.
GSIPoint(cs) == [geometry |-> [type |-> Str("Point"), coordinates |-> cs]]

GSIResponses ==
  { Raise("URLError"),
    [data |-> <<>>],
    [data |-> << [title |-> Str("t")] >>],
    [data |-> << GSIPoint(<<Num(139)>>) >>],
    [data |-> << GSIPoint(<<Num(139), Num(35)>>) >>],
    [data |-> << GSIPoint(<<Num(141), Num(37), Num(0)>>),
                 GSIPoint(<<Num(139), Num(35)>>) >>],
    [data |-> << GSIPoint(<<Str("139"), Str("35")>>) >>] }

NominatimResponses ==
  { Raise("URLError"),
    [data |-> <<>>],
    [data |-> << [lat |-> Str("36"), lon |-> Str("140")] >>],
    [data |-> << [lat |-> Str("36"), lon |-> Str("x")] >>] }

\* ---------------------------------------------------------- the clients
\* dict.get(key, default)
Get(d, key, default) == IF key \in DOMAIN d THEN d[key] ELSE default

\* geocode_address_nominatim: the first result's lat, lon through float();
\* every exception is caught and None returned.
geocode_address_nominatim(resp) ==
  IF Raised(resp) THEN None
  ELSE IF Len(resp.data) > 0
  THEN LET d == resp.data[1] IN
       IF "lat" \notin DOMAIN d THEN None
       ELSE LET lat == float(d.lat) IN
            IF Raised(lat) THEN None
            ELSE IF "lon" \notin DOMAIN d THEN None
            ELSE LET lon == float(d.lon) IN
                 IF Raised(lon) THEN None ELSE <<lat, lon>>
  ELSE None

\* Mutation: GSI's [lon, lat] is read as [lat, lon].
geocode_address_gsi_swapped(resp) ==
  IF Raised(resp) THEN None
  ELSE IF Len(resp.data) > 0
  THEN LET geometry == Get(resp.data[1], "geometry", <<>>)
           coordinates == Get(geometry, "coordinates", <<>>)
       IN IF Len(coordinates) >= 2
          THEN <<coordinates[1], coordinates[2]>>
          ELSE None
  ELSE None

\* geocode_address_gsi: the first result's geometry.coordinates is
\* [lon, lat, ...]; returned as (lat, lon) without conversion.
geocode_address_gsi(resp) ==
  IF Raised(resp) THEN None
  ELSE IF Len(resp.data) > 0
  THEN LET geometry == Get(resp.data[1], "geometry", <<>>)
           coordinates == Get(geometry, "coordinates", <<>>)
       IN IF Len(coordinates) >= 2
          THEN LET lon == coordinates[1]
                   lat == coordinates[2]
               IN <<lat, lon>>
          ELSE None
  ELSE None

\* ------------------------------------------------------------- the input
Headers ==
  { <<NameCol, AddrCol>>, <<AddrCol, NameCol>>,
    <<NameCol, OtherCol>>, <<OtherCol, AddrCol>> }

Lines == { <<"f1", "g1">>, <<"f2", "g2">> }

SeqsUpTo(S, n) == UNION { [1..k -> S] : k \in 0..n }

\* csv.DictReader: a row maps each header column to the field at its position.
DictRow(fieldnames, line) ==
  [c \in { fieldnames[i] : i \in 1..Len(fieldnames) } |->
     line[CHOOSE i \in 1..Len(fieldnames) : fieldnames[i] = c]]

VARIABLES
  fieldnames,       \* header row of the input
  lines,            \* data rows of the input, in source order
  pc,               \* position in process_evacuation_sites
  idx,              \* rows read so far (enumerate(reader, 1))
  name, address,    \* of the row being processed
  coords,           \* value geocode_with_fallback is returning
  sites, failed_sites,
  result,           \* the Result Document once built, else None
  outfile,          \* documents written to output_json, in order
  clock,            \* time slept so far
  trace,            \* history of provider calls, sleeps, records and writes
  error             \* the uncaught exception, once aborted

vars == <<fieldnames, lines, pc, idx, name,
          address, coords, sites, failed_sites, result, outfile, clock,
          trace, error>>

env == <<fieldnames, lines>>

Init ==
  /\ fieldnames \in Headers
  /\ lines \in SeqsUpTo(Lines, MaxRows)
  /\ pc = "start"
  /\ idx = 0
  /\ name = "" /\ address = ""
  /\ coords = None
  /\ sites = <<>> /\ failed_sites = <<>>
  /\ result = None
  /\ outfile = <<>>
  /\ clock = 0
  /\ trace = <<>>
  /\ error = "none"

Abort(e) ==
  /\ pc' = "aborted"
  /\ error' = e

\* line 92: open(input_csv) succeeds
OpenInput ==
  /\ pc = "start"
  /\ pc' = "loop"
  /\ UNCHANGED <<env, idx, name, address, coords, sites, failed_sites, result,
                 outfile, clock, trace, error>>

\* line 92: the input path cannot be opened
OpenInputFail ==
  /\ pc = "start"
  /\ Abort("FileNotFoundError")
  /\ UNCHANGED <<env, idx, name, address, coords, sites, failed_sites, result,
                 outfile, clock, trace>>

\* lines 94-96: the next row of the reader and its two required columns
ReadRow ==
  /\ pc = "loop"
  /\ idx < Len(lines)
  /\ LET row == DictRow(fieldnames, lines[idx + 1]) IN
       /\ NameCol \in DOMAIN row /\ AddrCol \in DOMAIN row
       /\ name' = row[NameCol]
       /\ address' = row[AddrCol]
  /\ idx' = idx + 1
  /\ pc' = "gsi"
  /\ UNCHANGED <<env, coords, sites, failed_sites, result, outfile, clock,
                 trace, error>>

\* row['...'] on a column the header does not have
ReadRowKeyError ==
  /\ pc = "loop"
  /\ idx < Len(lines)
  /\ LET row == DictRow(fieldnames, lines[idx + 1]) IN
       NameCol \notin DOMAIN row \/ AddrCol \notin DOMAIN row
  /\ idx' = idx + 1
  /\ Abort("KeyError")
  /\ UNCHANGED <<env, name, address, coords, sites, failed_sites, result,
                 outfile, clock, trace>>

\* the reader is exhausted: leave the with block
EndOfRows ==
  /\ pc = "loop"
  /\ idx = Len(lines)
  /\ pc' = "build"
  /\ UNCHANGED <<env, idx, name, address, coords, sites, failed_sites, result,
                 outfile, clock, trace, error>>

\* An entry of the history: what happened, while processing which row, the raw
\* response and the value returned (provider calls), the duration (sleeps).
Event(ev, resp, ret) ==
  [ev |-> ev, row |-> idx, resp |-> resp, ret |-> ret, dur |-> 0]
SleepEvent(dur) ==
  [ev |-> "sleep", row |-> idx, resp |-> None, ret |-> None, dur |-> dur]

\* Mutation: the resolver falls back whatever GSI answered.
FallbackAlways(c) == TRUE

\* line 71: the resolver goes on to Nominatim only when GSI gave nothing
FallbackNeeded(c) == ~Truthy(c)

\* lines 72, 79: the success message formats both numbers with .6f
CanPrintSuccess(c) == CanFormat6f(c[1]) /\ CanFormat6f(c[2])

\* lines 70-73: GSI gave a pair and the resolver returns it
GsiSuccess(resp) ==
  /\ pc = "gsi"
  /\ LET c == geocode_address_gsi(resp) IN
       /\ ~FallbackNeeded(c)
       /\ CanPrintSuccess(c)
       /\ coords' = c
       /\ trace' = trace \o << Event("gsi", resp, c), Event("return", None, c) >>
  /\ pc' = "record"
  /\ UNCHANGED <<env, idx, name, address, sites, failed_sites, result, outfile,
                 clock, error>>

\* line 72: GSI gave a pair that .6f cannot format; nothing catches the error
GsiFormatError(resp) ==
  /\ pc = "gsi"
  /\ LET c == geocode_address_gsi(resp) IN
       /\ ~FallbackNeeded(c)
       /\ ~CanPrintSuccess(c)
       /\ coords' = c
       /\ trace' = Append(trace, Event("gsi", resp, c))
  /\ Abort("ValueError")
  /\ UNCHANGED <<env, idx, name, address, sites, failed_sites, result, outfile,
                 clock>>

\* lines 70-71: GSI gave None
GsiAbsent(resp) ==
  /\ pc = "gsi"
  /\ LET c == geocode_address_gsi(resp) IN
       /\ FallbackNeeded(c)
       /\ coords' = c
       /\ trace' = Append(trace, Event("gsi", resp, c))
  /\ pc' = "fallback_sleep"
  /\ UNCHANGED <<env, idx, name, address, sites, failed_sites, result, outfile,
                 clock, error>>

\* Mutation: the fallback goes to Nominatim without the delay.
FallbackNoSleep ==
  /\ pc = "fallback_sleep"
  /\ pc' = "nominatim"
  /\ UNCHANGED <<env, idx, name, address, coords, sites, failed_sites, result,
                 outfile, clock, trace, error>>

\* line 76: time.sleep(1)
FallbackSleep ==
  /\ pc = "fallback_sleep"
  /\ clock' = clock + InterProviderDelay
  /\ trace' = Append(trace, SleepEvent(InterProviderDelay))
  /\ pc' = "nominatim"
  /\ UNCHANGED <<env, idx, name, address, coords, sites, failed_sites, result,
                 outfile, error>>

\* lines 77-83: Nominatim's answer is the resolver's answer.  Its numbers come
\* out of float(), so the success message always formats.
GeocodeNominatim(resp) ==
  /\ pc = "nominatim"
  /\ LET c == geocode_address_nominatim(resp) IN
       /\ coords' = c
       /\ trace' = trace \o << Event("nominatim", resp, c), Event("return", None, c) >>
  /\ pc' = "record"
  /\ UNCHANGED <<env, idx, name, address, sites, failed_sites, result, outfile,
                 clock, error>>

\* lines 104-109
Site(n, a, c) == [name |-> n, address |-> a, latitude |-> c[1], longitude |-> c[2]]
\* lines 112-115
FailedSite(n, a) == [name |-> n, address |-> a]

\* lines 103-110
AppendSite(ss, n, a, c) == IF Truthy(c) THEN Append(ss, Site(n, a, c)) ELSE ss
\* Mutation: the else of line 111 is lost and every row is appended.
AppendFailedAlways(fs, n, a, c) == Append(fs, [name |-> n, address |-> a])

\* lines 111-115
AppendFailed(fs, n, a, c) == IF Truthy(c) THEN fs ELSE Append(fs, FailedSite(n, a))

\* lines 103-115: the row becomes a Resolved Site or a Failed Site
RecordRow ==
  /\ pc = "record"
  /\ sites' = AppendSite(sites, name, address, coords)
  /\ failed_sites' = AppendFailed(failed_sites, name, address, coords)
  /\ trace' = Append(trace, Event("record", None, coords))
  /\ pc' = "pace"
  /\ UNCHANGED <<env, idx, name, address, coords, result, outfile, clock, error>>

\* Mutation: the pacing sleep sits inside the success branch.
PaceSleepOnSuccessOnly ==
  /\ pc = "pace"
  /\ clock' = (IF Truthy(coords) THEN clock + InterRowDelay ELSE clock)
  /\ trace' = (IF Truthy(coords)
               THEN Append(trace, [ev |-> "sleep", row |-> idx, resp |-> None,
                                   ret |-> None, dur |-> InterRowDelay])
               ELSE trace)
  /\ pc' = "loop"
  /\ UNCHANGED <<env, idx, name, address, coords, sites, failed_sites, result,
                 outfile, error>>

\* line 118: time.sleep(0.5)
PaceSleep ==
  /\ pc = "pace"
  /\ clock' = clock + InterRowDelay
  /\ trace' = Append(trace, SleepEvent(InterRowDelay))
  /\ pc' = "loop"
  /\ UNCHANGED <<env, idx, name, address, coords, sites, failed_sites, result,
                 outfile, error>>

\* lines 134-144
Feature(site) ==
  [type |-> "Feature",
   properties |-> [name |-> site.name, address |-> site.address],
   geometry |-> [type |-> "Point",
                 coordinates |-> <<site.longitude, site.latitude>>]]

\* Mutation: features are inserted at the front instead of appended.
FeaturesReversed(ss) == [i \in 1..Len(ss) |-> Feature(ss[Len(ss) + 1 - i])]

\* lines 133-145
Features(ss) == [i \in 1..Len(ss) |-> Feature(ss[i])]

\* Mutation: total_sites counts every row read, not the resolved ones.
MetadataCountsAllRows(ss, fs, now) ==
  [title |-> "Suginami-ku shinsai kyuenjo",
   total_sites |-> Len(ss) + Len(fs),
   failed_geocoding |-> Len(fs),
   generated_at |-> now]

\* lines 124-129; generated_at is the time of the build
Metadata(ss, fs, now) ==
  [title |-> "Suginami-ku shinsai kyuenjo",
   total_sites |-> Len(ss),
   failed_geocoding |-> Len(fs),
   generated_at |-> now]

\* Mutation: the key is set without the test of line 148.
WithFailedSitesAlways(doc, fs) == doc @@ [failed_sites |-> fs]

\* lines 148-149: the key exists only for a non-empty list
WithFailedSites(doc, fs) ==
  IF Len(fs) > 0 THEN doc @@ [failed_sites |-> fs] ELSE doc

\* lines 121-149
BuildDocument(ss, fs, now) ==
  WithFailedSites([type |-> "FeatureCollection",
                   features |-> Features(ss),
                   metadata |-> Metadata(ss, fs, now)], fs)

BuildResult ==
  /\ pc = "build"
  /\ result' = BuildDocument(sites, failed_sites, clock)
  /\ pc' = "write"
  /\ UNCHANGED <<env, idx, name, address, coords, sites, failed_sites, outfile,
                 clock, trace, error>>

\* lines 151-152: open(output_json, 'w') succeeds, then json.dump
WriteOutput ==
  /\ pc = "write"
  /\ outfile' = Append(outfile, result)
  /\ trace' = Append(trace, Event("write", None, None))
  /\ pc' = "done"
  /\ UNCHANGED <<env, idx, name, address, coords, sites, failed_sites, result,
                 clock, error>>

\* line 151: the output path cannot be opened for writing
WriteOutputFail ==
  /\ pc = "write"
  /\ Abort("PermissionError")
  /\ UNCHANGED <<env, idx, name, address, coords, sites, failed_sites, result,
                 outfile, clock, trace>>

Next ==
  \/ OpenInput
  \/ OpenInputFail
  \/ ReadRow
  \/ ReadRowKeyError
  \/ EndOfRows
  \/ \E resp \in GSIResponses : GsiSuccess(resp)
  \/ \E resp \in GSIResponses : GsiFormatError(resp)
  \/ \E resp \in GSIResponses : GsiAbsent(resp)
  \/ FallbackSleep
  \/ \E resp \in NominatimResponses : GeocodeNominatim(resp)
  \/ RecordRow
  \/ PaceSleep
  \/ BuildResult
  \/ WriteOutput
  \/ WriteOutputFail

Spec == Init /\ [][Next]_vars

TypeOK ==
  /\ pc \in {"start", "loop", "gsi", "fallback_sleep", "nominatim", "record",
             "pace", "build", "write", "done", "aborted"}
  /\ idx \in 0..Len(lines)

\* ================================================================ history
\* The part of the history that belongs to the resolver's work on row k.
ResolverEvents(k) ==
  SelectSeq(trace, LAMBDA e :
    /\ e.row = k
    /\ \/ e.ev \in {"gsi", "nominatim", "return"}
       \/ e.ev = "sleep" /\ e.dur = InterProviderDelay)

Kinds(es) == [i \in 1..Len(es) |-> es[i].ev]
Count(es, ev) == Cardinality({ i \in 1..Len(es) : es[i].ev = ev })

\* A Coordinate of the data model: a pair of numbers.
IsCoordinate(c) == Len(c) = 2 /\ IsNum(c[1]) /\ IsNum(c[2])

\* The resolver is still at work on row k.
Resolving(k) == k = idx /\ pc \in {"gsi", "fallback_sleep", "nominatim"}

\* The values geocode_with_fallback returned, one per row it finished.
Returns == SelectSeq(trace, LAMBDA e : e.ev = "return")

\* Rows that have been appended to sites or failed_sites.
Recorded == Count(trace, "record")

\* Name and address of input row k, read off the file itself.
ColumnOf(c) == CHOOSE i \in 1..Len(fieldnames) : fieldnames[i] = c
RowName(k) == lines[k][ColumnOf(NameCol)]
RowAddress(k) == lines[k][ColumnOf(AddrCol)]

\* Among the first k rows, those the resolver resolved (failed to resolve).
ResolvedRows(k) == { j \in 1..k : Returns[j].ret # None }
FailedRows(k) == { j \in 1..k : Returns[j].ret = None }

HeaderComplete ==
  /\ \E i \in 1..Len(fieldnames) : fieldnames[i] = NameCol
  /\ \E i \in 1..Len(fieldnames) : fieldnames[i] = AddrCol

\* ================================================================= claims

\* C1: when GSI returns a coordinate for a row, the resolver returns exactly
\* that coordinate, and neither a Nominatim call nor the inter-provider delay
\* happens for that row.
C1_GsiSuccessShortCircuits ==
  \A k \in 1..idx :
    LET es == ResolverEvents(k) IN
      (Len(es) > 0 /\ es[1].ev = "gsi" /\ IsCoordinate(es[1].ret)) =>
        /\ Kinds(es) = <<"gsi", "return">>
        /\ es[2].ret = es[1].ret
        /\ (k = idx /\ pc = "record") => coords = es[1].ret

C1_Witness ==
  /\ pc = "record"
  /\ LET es == ResolverEvents(idx) IN
       Len(es) = 2 /\ es[1].ev = "gsi" /\ IsCoordinate(es[1].ret)

\* C2: when GSI returns Absent for a row, the resolver's events for that row
\* are, in order, one GSI call, one inter-provider delay, one Nominatim call,
\* and its return value is Nominatim's; no provider is called twice for a row.
C2_FallbackOrder ==
  \A k \in 1..idx :
    LET es == ResolverEvents(k) IN
      /\ Count(es, "gsi") <= 1 /\ Count(es, "nominatim") <= 1
      /\ (Len(es) > 0 /\ es[1].ev = "gsi" /\ es[1].ret = None) =>
           IF k = idx /\ pc = "fallback_sleep" THEN Kinds(es) = <<"gsi">>
           ELSE IF k = idx /\ pc = "nominatim" THEN Kinds(es) = <<"gsi", "sleep">>
           ELSE /\ Kinds(es) = <<"gsi", "sleep", "nominatim", "return">>
                /\ es[2].dur = InterProviderDelay
                /\ es[4].ret = es[3].ret
                /\ (k = idx /\ pc = "record") => coords = es[3].ret

C2_Witness ==
  /\ pc = "record"
  /\ coords = None
  /\ Kinds(ResolverEvents(idx)) = <<"gsi", "sleep", "nominatim", "return">>

\* C3: after k rows have been processed, len(sites) + len(failed_sites) = k;
\* row j is in sites (at the position of its rank among the resolved rows)
\* exactly when the resolver returned a coordinate for it, and in failed_sites
\* exactly when it returned Absent.
C3_ExactlyOne ==
  LET k == Recorded IN
    /\ k = (IF Resolving(idx) \/ pc = "record" \/ error \in {"KeyError", "ValueError"}
            THEN idx - 1 ELSE idx)
    /\ Len(sites) + Len(failed_sites) = k
    /\ Len(sites) = Cardinality(ResolvedRows(k))
    /\ Len(failed_sites) = Cardinality(FailedRows(k))
    /\ \A j \in ResolvedRows(k) :
         LET s == sites[Cardinality(ResolvedRows(j))] IN
           /\ s.name = RowName(j) /\ s.address = RowAddress(j)
           /\ <<s.latitude, s.longitude>> = Returns[j].ret
    /\ \A j \in FailedRows(k) :
         LET s == failed_sites[Cardinality(FailedRows(j))] IN
           s.name = RowName(j) /\ s.address = RowAddress(j)

C3_Witness ==
  /\ Recorded = 2
  /\ lines[1] = lines[2]
  /\ Len(sites) = 1 /\ Len(failed_sites) = 1

\* C4: a provider error is never fatal: every provider call yields a
\* Coordinate or Absent, a row both providers give up on becomes a Failed
\* Site, and no run is aborted by what a provider answered.
C4_ProviderErrorsNotFatal ==
  /\ \A i \in 1..Len(trace) :
       trace[i].ev \in {"gsi", "nominatim"} =>
         trace[i].ret = None \/ IsCoordinate(trace[i].ret)
  /\ pc = "aborted" => error \in {"FileNotFoundError", "KeyError", "PermissionError"}
  /\ \A j \in FailedRows(Recorded) :
       failed_sites[Cardinality(FailedRows(j))] =
         [name |-> RowName(j), address |-> RowAddress(j)]

\* C5: the metadata counts of the Result Document equal the lengths of its
\* lists and the numbers of resolved and failed rows; with no failure among N
\* rows, features has length N, total_sites = N and failed_geocoding = 0.
C5_MetadataCounts ==
  result # None =>
    LET n == Len(lines) IN
      /\ result.metadata.total_sites = Len(result.features)
      /\ result.metadata.total_sites = Cardinality(ResolvedRows(n))
      /\ result.metadata.failed_geocoding = Cardinality(FailedRows(n))
      /\ FailedRows(n) = {} =>
           /\ Len(result.features) = n
           /\ result.metadata.total_sites = n
           /\ result.metadata.failed_geocoding = 0
      /\ \A i \in 1..Len(outfile) : outfile[i] = result

C5_Witness ==
  /\ pc = "done"
  /\ outfile[1].metadata.total_sites = 1
  /\ outfile[1].metadata.failed_geocoding = 1

\* C6: the Result Document has the key failed_sites exactly when some row
\* failed; when present its length is metadata.failed_geocoding.
C6_FailedSitesKey ==
  result # None =>
    /\ "failed_sites" \in DOMAIN result <=> FailedRows(Len(lines)) # {}
    /\ "failed_sites" \in DOMAIN result =>
         /\ Len(result.failed_sites) = result.metadata.failed_geocoding
         /\ Len(result.failed_sites) > 0

C6_Witness ==
  /\ pc = "done"
  /\ "failed_sites" \in DOMAIN outfile[1]
  /\ Len(outfile[1].features) > 0

\* C7: features is the subsequence of the input rows that were resolved, in
\* source order, each with that row's name and address.
C7_FeaturesInRowOrder ==
  result # None =>
    LET n == Len(lines) IN
      /\ Len(result.features) = Cardinality(ResolvedRows(n))
      /\ \A j \in ResolvedRows(n) :
           result.features[Cardinality(ResolvedRows(j))].properties =
             [name |-> RowName(j), address |-> RowAddress(j)]

C7_Witness ==
  /\ pc = "done"
  /\ Len(outfile[1].features) = 2
  /\ outfile[1].features[1].properties.name # outfile[1].features[2].properties.name

\* The [longitude, latitude] the raw first result of a provider stands for.
RawLonLat(e) ==
  LET d == e.resp.data[1] IN
    IF e.ev = "gsi"
    THEN <<d.geometry.coordinates[1], d.geometry.coordinates[2]>>
    ELSE <<Num(FloatTable[d.lon.str]), Num(FloatTable[d.lat.str])>>

\* The provider call that produced the coordinate of resolved row j.
Producer(j) ==
  LET es == ResolverEvents(j) IN
    es[CHOOSE i \in 1..Len(es) : es[i].ev \in {"gsi", "nominatim"} /\ es[i].ret # None]

\* C8: a feature's geometry.coordinates is [longitude, latitude] of the raw
\* result that resolved its row, whichever provider that was.
C8_LonLatOrder ==
  result # None =>
    \A j \in ResolvedRows(Len(lines)) :
      result.features[Cardinality(ResolvedRows(j))].geometry.coordinates =
        RawLonLat(Producer(j))

C8_Witness ==
  /\ pc = "done"
  /\ Len(outfile[1].features) = 2
  /\ Producer(1).ev = "gsi"
  /\ Producer(2).ev = "nominatim"

\* C9: an input whose header lacks a required column aborts the run and no
\* Result Document is written, however many data rows follow.
C9_MissingColumnIsFatal ==
  ~HeaderComplete => pc # "done" /\ outfile = <<>>

\* C10: rows are processed one at a time and paced: the GSI call of row k+1
\* directly follows the inter-row delay of row k, which directly follows the
\* recording of row k; every recorded row has exactly one inter-row delay;
\* the output is written once, after all rows were recorded and paced, and an
\* aborted run has written nothing.
PaceSleeps == { i \in 1..Len(trace) : trace[i].ev = "sleep" /\ trace[i].dur = InterRowDelay }
FallbackSleeps ==
  { i \in 1..Len(trace) : trace[i].ev = "sleep" /\ trace[i].dur = InterProviderDelay }

C10_SequentialPacedSingleWrite ==
  /\ \A i \in 1..Len(trace) :
       /\ i > 1 => trace[i - 1].row <= trace[i].row
       /\ trace[i].ev = "gsi" =>
            IF trace[i].row = 1 THEN i = 1
            ELSE /\ i > 2
                 /\ i - 1 \in PaceSleeps /\ trace[i - 1].row = trace[i].row - 1
                 /\ trace[i - 2].ev = "record" /\ trace[i - 2].row = trace[i].row - 1
       /\ trace[i].ev = "nominatim" => trace[i - 1].row = trace[i].row
       /\ i \in PaceSleeps => trace[i - 1].ev = "record" /\ trace[i - 1].row = trace[i].row
  /\ Cardinality(PaceSleeps) = (IF pc = "pace" THEN Recorded - 1 ELSE Recorded)
  /\ clock = InterRowDelay * Cardinality(PaceSleeps)
               + InterProviderDelay * Cardinality(FallbackSleeps)
  /\ Len(outfile) = Count(trace, "write")
  /\ Len(outfile) <= 1
  /\ pc \in {"build", "write", "done"} =>
       Recorded = Len(lines) /\ Cardinality(PaceSleeps) = Len(lines)
  /\ Len(outfile) = 1 <=> pc = "done"
  /\ pc = "done" => trace[Len(trace)].ev = "write"
  /\ pc = "aborted" => outfile = <<>>

C10_Witness ==
  /\ pc = "done"
  /\ Len(lines) = 2
  /\ Cardinality(PaceSleeps) = 2
  /\ Len(sites) = 1 /\ Len(failed_sites) = 1
====
